---- MODULE Spec2Model ----
(***************************************************************************)
(* Model of the transcript alignment code of oatmeal:                      *)
(*   processing/multi_transcription_aligner.py  MultiTranscriptionAligner  *)
(*   processing/aligner.py                      Aligner                    *)
(*   run_strategies/transcribe_only_strategy.py TranscribeOnlyStrategy.run *)
(*                                                                         *)
(* Times are exact decimals held as integer milliseconds, so round(x, 2)   *)
(* rounds to a multiple of 10 ms and the 1.0 second silence threshold is   *)
(* 1000.  A segment is the dict {"timestamp": [start, end], "text": t};    *)
(* its end may be None.  A call either returns or raises; error names the  *)
(* exception.  A diarization is the sequence of its turns in the order its *)
(* iterators yield them; a speaker-attributed segment is the tuple          *)
(* (speaker, start, end, text).                                            *)
(***************************************************************************)
EXTENDS Integers, Sequences, FiniteSets, TLC

VARIABLES user_timestamps, monitor_timestamps, session_metadata,
          pc, merged, enhanced_format, error,
          diarization, timestamps, segments, start_time, end_time,
          best_match, speaker_transcriptions, result, log,
          calls, saved_final, saved_enhanced, returned

\* the arguments and the report of MultiTranscriptionAligner's calls
mta_vars == <<user_timestamps, monitor_timestamps, session_metadata,
              merged, enhanced_format>>

\* the arguments, locals, return values and log of Aligner's calls
aligner_vars == <<diarization, timestamps, segments, start_time, end_time,
                  best_match, speaker_transcriptions, result, log>>

\* the calls run has made, each with its argument and its outcome, what it
\* gave to save_final_transcription and to save_enhanced_transcription, and
\* its return value
run_vars == <<calls, saved_final, saved_enhanced, returned>>

vars == <<mta_vars, aligner_vars, run_vars, pc, error>>

----------------------------------------------------------------------------
(* Bounds of the inputs *)

\* the time grid holds TimeGrid[1 .. MaxTick + 1]
MaxTick == 3

\* total number of segments over both channels
MaxSegments == 3

\* start and end values (ms) the inputs are drawn from: equal starts, gaps
\* of 996, 1000 and 1006 ms, and durations that round2 moves (4, 996, 1006)
TimeGrid == <<0, 4, 1000, 2006, 3000, 3004, 4010, 5000>>

Times == {TimeGrid[k + 1] : k \in 0..MaxTick}

\* Python's None, as the end of a segment
None == 0 - 1

\* [start, end] pairs: end is a time not before start, or None
Timestamps == {<<s, e>> : s \in Times, e \in Times \cup {None}} \
              {<<s, e>> \in Times \X Times : e < s}

TimestampLists(n) == [1..n -> Timestamps]

\* every segment of a call carries its own text
UserText(k) == "u" \o ToString(k)
MonitorText(k) == "m" \o ToString(k)

UserSegments(ts) == [k \in 1..Len(ts) |-> [timestamp |-> ts[k], text |-> UserText(k)]]
MonitorSegments(ts) == [k \in 1..Len(ts) |-> [timestamp |-> ts[k], text |-> MonitorText(k)]]

\* caller-supplied session metadata: what generate_session_metadata returns,
\* less than that, and a dict that already holds the computed keys
SessionMetadatas ==
    { [timestamp |-> "20250101_120000"],
      [timestamp |-> "20250101_120000", duration_seconds |-> 1520],
      [timestamp |-> "20250101_120000", duration_seconds |-> 1520,
       total_segments |-> 99, channels |-> [mic |-> "A", monitor |-> "B"]] }

----------------------------------------------------------------------------
(* MultiTranscriptionAligner.align *)

\* mutants of line 27: the ends are compared; a tie goes to the monitor
UserHeadFirstByEnd(user_segment, monitor_segment) ==
    user_segment.timestamp[2] <= monitor_segment.timestamp[2]

UserHeadFirstStrict(user_segment, monitor_segment) ==
    user_segment.timestamp[1] < monitor_segment.timestamp[1]

\* line 27: the user head is taken when its start is not after the monitor's
UserHeadFirst(user_segment, monitor_segment) ==
    user_segment.timestamp[1] <= monitor_segment.timestamp[1]

\* lines 33-35: the rest of the user list is appended
DrainUser(u, i, acc) == acc \o SubSeq(u, i, Len(u))

\* mutant of lines 36-38: the monitor head is skipped
DrainMonitorSkipsHead(m, j, acc) == acc \o SubSeq(m, j + 1, Len(m))

\* lines 36-38: the rest of the monitor list is appended
DrainMonitor(m, j, acc) == acc \o SubSeq(m, j, Len(m))

RECURSIVE AlignLoop(_, _, _, _, _)
AlignLoop(u, m, i, j, acc) ==
    IF i <= Len(u) /\ j <= Len(m)
    THEN IF UserHeadFirst(u[i], m[j])
         THEN AlignLoop(u, m, i + 1, j, Append(acc, u[i]))
         ELSE AlignLoop(u, m, i, j + 1, Append(acc, m[j]))
    ELSE DrainMonitor(m, j, DrainUser(u, i, acc))

align(u, m) == AlignLoop(u, m, 1, 1, <<>>)

----------------------------------------------------------------------------
(* MultiTranscriptionAligner.align_enhanced *)

TwoDecimalsMs == 10
SilenceThresholdMs == 1000

\* round(x, 2): to the nearest multiple of 10 ms, a tie to the even one
Round2(x) ==
    LET q == x \div TwoDecimalsMs
        r == x % TwoDecimalsMs
    IN  IF 2 * r < TwoDecimalsMs THEN q * TwoDecimalsMs
        ELSE IF 2 * r > TwoDecimalsMs THEN (q + 1) * TwoDecimalsMs
        ELSE IF q % 2 = 0 THEN q * TwoDecimalsMs
        ELSE (q + 1) * TwoDecimalsMs

\* round(total / n, 2) for n > 0, on the exact quotient: a tie goes to the
\* even multiple (a binary float may stand on either side of such a tie)
RoundDiv2(total, n) ==
    LET d == TwoDecimalsMs * n
        q == total \div d
        r == total % d
    IN  IF 2 * r < d THEN q * TwoDecimalsMs
        ELSE IF 2 * r > d THEN (q + 1) * TwoDecimalsMs
        ELSE IF q % 2 = 0 THEN q * TwoDecimalsMs
        ELSE (q + 1) * TwoDecimalsMs

\* end_time - start_time raises TypeError when an operand is None
SubtractRaises(segment) ==
    segment.timestamp[1] = None \/ segment.timestamp[2] = None

\* lines 58-67
UserEntry(segment) ==
    [speaker    |-> "User",
     start_time |-> segment.timestamp[1],
     end_time   |-> segment.timestamp[2],
     duration   |-> Round2(segment.timestamp[2] - segment.timestamp[1]),
     text       |-> segment.text,
     source     |-> "mic"]

\* mutant of lines 71-80: the speaker of the user block is kept
MonitorEntryAsUser(segment) ==
    [speaker    |-> "User",
     start_time |-> segment.timestamp[1],
     end_time   |-> segment.timestamp[2],
     duration   |-> Round2(segment.timestamp[2] - segment.timestamp[1]),
     text       |-> segment.text,
     source     |-> "monitor"]

\* lines 71-80
MonitorEntry(segment) ==
    [speaker    |-> "Others",
     start_time |-> segment.timestamp[1],
     end_time   |-> segment.timestamp[2],
     duration   |-> Round2(segment.timestamp[2] - segment.timestamp[1]),
     text       |-> segment.text,
     source     |-> "monitor"]

\* lines 54-80: the conversation before it is sorted
Convert(u, m) ==
    [k \in 1..(Len(u) + Len(m)) |->
        IF k <= Len(u) THEN UserEntry(u[k]) ELSE MonitorEntry(m[k - Len(u)])]

ConvertRaises(u, m) ==
    \/ \E k \in DOMAIN u : SubtractRaises(u[k])
    \/ \E k \in DOMAIN m : SubtractRaises(m[k])

\* mutant of the sort: an entry goes before the entries with its own key
InsertBeforeEqualStartTime(sorted, entry) ==
    LET k == Cardinality({p \in DOMAIN sorted :
                             sorted[p].start_time < entry.start_time})
    IN  SubSeq(sorted, 1, k) \o <<entry>> \o SubSeq(sorted, k + 1, Len(sorted))

\* list.sort is stable: an entry goes behind every entry whose key is not
\* greater than its own
InsertByStartTime(sorted, entry) ==
    LET k == Cardinality({p \in DOMAIN sorted :
                             sorted[p].start_time <= entry.start_time})
    IN  SubSeq(sorted, 1, k) \o <<entry>> \o SubSeq(sorted, k + 1, Len(sorted))

RECURSIVE SortFrom(_, _, _)
SortFrom(conversation, k, sorted) ==
    IF k > Len(conversation) THEN sorted
    ELSE SortFrom(conversation, k + 1, InsertByStartTime(sorted, conversation[k]))

\* mutant of line 83: the conversation is left as converted
SortByStartTimeSkipped(conversation) == conversation

\* line 83
SortByStartTime(conversation) == SortFrom(conversation, 1, <<>>)

\* mutant of lines 86-87: the exact length of the entry is summed
TalkTimeTermExact(entry, speaker) ==
    IF entry.speaker = speaker THEN entry.end_time - entry.start_time ELSE 0

\* what an entry adds to
\* sum(seg["duration"] for seg in conversation if seg["speaker"] == speaker)
TalkTimeTerm(entry, speaker) ==
    IF entry.speaker = speaker THEN entry.duration ELSE 0

RECURSIVE TalkTimeFrom(_, _, _)
TalkTimeFrom(conversation, speaker, k) ==
    IF k > Len(conversation) THEN 0
    ELSE TalkTimeTerm(conversation[k], speaker)
         + TalkTimeFrom(conversation, speaker, k + 1)

\* lines 86-87
TalkTime(conversation, speaker) == TalkTimeFrom(conversation, speaker, 1)

\* sum(seg["duration"] for seg in conversation)
RECURSIVE TotalDurationFrom(_, _)
TotalDurationFrom(conversation, k) ==
    IF k > Len(conversation) THEN 0
    ELSE conversation[k].duration + TotalDurationFrom(conversation, k + 1)

\* "/" raises ZeroDivisionError on a zero divisor
DivideRaises(divisor) == divisor = 0

\* mutant of line 89: the division is not guarded
AvgSegmentLengthUnguarded(conversation) ==
    LET total_segments == Len(conversation)
    IN  [raises |-> DivideRaises(total_segments),
         value  |-> IF DivideRaises(total_segments) THEN 0
                    ELSE RoundDiv2(TotalDurationFrom(conversation, 1), total_segments)]

\* line 89
AvgSegmentLength(conversation) ==
    LET total_segments == Len(conversation)
    IN  IF total_segments > 0
        THEN [raises |-> DivideRaises(total_segments),
              value  |-> RoundDiv2(TotalDurationFrom(conversation, 1), total_segments)]
        ELSE [raises |-> FALSE, value |-> 0]

\* mutant of line 95: a gap of the threshold counts
IsSilenceGapInclusive(gap) == gap >= SilenceThresholdMs

\* line 95
IsSilenceGap(gap) == gap > SilenceThresholdMs

\* lines 92-96
RECURSIVE SilenceGapsFrom(_, _)
SilenceGapsFrom(conversation, i) ==
    IF i > Len(conversation) THEN 0
    ELSE (IF IsSilenceGap(conversation[i].start_time - conversation[i - 1].end_time)
          THEN 1 ELSE 0)
         + SilenceGapsFrom(conversation, i + 1)

SilenceGaps(conversation) == SilenceGapsFrom(conversation, 2)

\* lines 100-107: {**session_metadata, "total_segments": ..., "channels": ...}
Channels == [mic |-> "User", monitor |-> "Others"]

\* mutant of lines 100-107: the caller's dict is not spread into the result
BuildSessionMetadataComputedOnly(metadata, total_segments) ==
    [key \in {"total_segments", "channels"} |->
        IF key = "total_segments" THEN total_segments ELSE Channels]

\* mutant of lines 100-107: the caller's keys are spread last
BuildSessionMetadataCallerLast(metadata, total_segments) ==
    [key \in DOMAIN metadata \cup {"total_segments", "channels"} |->
        IF key \in DOMAIN metadata THEN metadata[key]
        ELSE IF key = "total_segments" THEN total_segments
        ELSE Channels]

BuildSessionMetadata(metadata, total_segments) ==
    [key \in DOMAIN metadata \cup {"total_segments", "channels"} |->
        IF key = "total_segments" THEN total_segments
        ELSE IF key = "channels" THEN Channels
        ELSE metadata[key]]

\* lines 109-115
BuildSummaryHints(conversation) ==
    [user_talk_time_seconds   |-> Round2(TalkTime(conversation, "User")),
     others_talk_time_seconds |-> Round2(TalkTime(conversation, "Others")),
     silence_gaps             |-> SilenceGaps(conversation),
     avg_segment_length       |-> AvgSegmentLength(conversation).value,
     total_segments           |-> Len(conversation)]

\* mutant of lines 99-107: the computed keys are written into the caller's
\* dict (session_metadata.update(...)) and that dict is put into the report
SessionMetadataUpdatedInPlace(metadata, total_segments) ==
    BuildSessionMetadata(metadata, total_segments)

\* lines 99-107: the caller's dict after the call; {**session_metadata, ...}
\* builds a new dict and the argument is only read
SessionMetadataAfterCall(metadata, total_segments) == metadata

\* lines 57-83: a stream after the call; the loops read the segments, the
\* entries are new dicts and line 83 sorts the new list conversation
TimestampsAfterCall(stream) == stream

\* the report of a call that does not raise
BuildEnhancedFormat(u, m, metadata) ==
    LET conversation == SortByStartTime(Convert(u, m))
    IN  [session_metadata |-> BuildSessionMetadata(metadata, Len(conversation)),
         conversation     |-> conversation,
         summary_hints    |-> BuildSummaryHints(conversation)]

\* the exception of a call, "none" when it returns
EnhancedError(u, m) ==
    IF ConvertRaises(u, m) THEN "TypeError"
    ELSE IF AvgSegmentLength(SortByStartTime(Convert(u, m))).raises
         THEN "ZeroDivisionError"
    ELSE "none"

\* what enhanced_format holds while no report has been returned
NoReport == [session_metadata |-> [timestamp |-> ""],
             conversation     |-> <<>>,
             summary_hints    |-> [total_segments |-> 0 - 1]]

----------------------------------------------------------------------------
(* Aligner: inputs *)

\* total number of turns and chunks of a call of Aligner.align
MaxItems == 3

\* length of the list given to merge_consecutive_segments
MaxAttributed == 4

\* length of the chunk list of a call of Aligner.align on grid spans
MaxChunks == 3

Speakers == {"SPEAKER_00", "SPEAKER_01"}

\* a turn has start < end
Turns == {turn \in [start : Times, end : Times, speaker : Speakers] :
             turn.start < turn.end}

\* turns that hold one step of the time grid
GridTurns == {turn \in Turns :
                 \E k \in 1..MaxTick :
                     turn.start = TimeGrid[k] /\ turn.end = TimeGrid[k + 1]}

\* chunk spans of one step of the time grid, or of no length
GridStamps == {<<TimeGrid[k], TimeGrid[k + 1]>> : k \in 1..MaxTick}
                  \cup {<<t, t>> : t \in Times}

ChunkText(k) == "c" \o ToString(k)

Chunks(ts) == [k \in 1..Len(ts) |-> [timestamp |-> ts[k], text |-> ChunkText(k)]]

\* the spans of the segments given to merge_consecutive_segments
AttributedSpans == {<<TimeGrid[k], TimeGrid[k + 1]>> : k \in 1..MaxTick}

AttributedText(k) == "t" \o ToString(k)

AttributedSegments(choice) ==
    [k \in 1..Len(choice) |->
        <<choice[k][1], choice[k][2][1], choice[k][2][2], AttributedText(k)>>]

----------------------------------------------------------------------------
(* Aligner.find_best_match *)

\* best_match = None
NoMatch == <<>>

Max(a, b) == IF a >= b THEN a ELSE b
Min(a, b) == IF a <= b THEN a ELSE b

\* mutant of line 42: an equal intersection replaces the match
IsLongerOrEqual(intersection_length, max_intersection) ==
    intersection_length >= max_intersection

\* line 42
IsLonger(intersection_length, max_intersection) ==
    intersection_length > max_intersection

\* mutant of lines 33-44: max_intersection is not updated (line 43 missing)
FindStepKeepsMax(best, turn, chunk_start, chunk_end) ==
    LET intersection_start == Max(chunk_start, turn.start)
        intersection_end == Min(chunk_end, turn.end)
        intersection_length == intersection_end - intersection_start
    IN  IF /\ intersection_start < intersection_end
           /\ IsLonger(intersection_length, best.max_intersection)
        THEN [best_match       |-> <<turn.start, turn.end, turn.speaker>>,
              max_intersection |-> best.max_intersection]
        ELSE best

\* mutant of lines 36-43: the intersection is taken as a closed interval, so
\* that a single common point counts
FindStepInclusive(best, turn, chunk_start, chunk_end) ==
    LET intersection_start == Max(chunk_start, turn.start)
        intersection_end == Min(chunk_end, turn.end)
        intersection_length == intersection_end - intersection_start + 1
    IN  IF /\ intersection_start <= intersection_end
           /\ IsLonger(intersection_length, best.max_intersection)
        THEN [best_match       |-> <<turn.start, turn.end, turn.speaker>>,
              max_intersection |-> intersection_length]
        ELSE best

\* lines 33-44: one turn of the loop; best holds best_match and
\* max_intersection
FindStep(best, turn, chunk_start, chunk_end) ==
    LET intersection_start == Max(chunk_start, turn.start)
        intersection_end == Min(chunk_end, turn.end)
        intersection_length == intersection_end - intersection_start
    IN  IF /\ intersection_start < intersection_end
           /\ IsLonger(intersection_length, best.max_intersection)
        THEN [best_match       |-> <<turn.start, turn.end, turn.speaker>>,
              max_intersection |-> intersection_length]
        ELSE best

RECURSIVE FindLoop(_, _, _, _, _)
FindLoop(turns, k, best, chunk_start, chunk_end) ==
    IF k > Len(turns) THEN best
    ELSE FindLoop(turns, k + 1, FindStep(best, turns[k], chunk_start, chunk_end),
                  chunk_start, chunk_end)

\* lines 28-46
find_best_match(turns, chunk_start, chunk_end) ==
    FindLoop(turns, 1, [best_match |-> NoMatch, max_intersection |-> 0],
             chunk_start, chunk_end).best_match

----------------------------------------------------------------------------
(* Aligner.merge_consecutive_segments *)

\* previous_segment = None
NoSegment == <<>>

\* mutant of lines 58-63: the end of the earlier segment is kept
MergeStepKeepsEnd(state, segment) ==
    IF state.previous_segment = NoSegment
    THEN [merged_segments |-> state.merged_segments, previous_segment |-> segment]
    ELSE IF segment[1] = state.previous_segment[1]
    THEN [merged_segments  |-> state.merged_segments,
          previous_segment |-> <<state.previous_segment[1],
                                 state.previous_segment[2],
                                 state.previous_segment[3],
                                 state.previous_segment[4] \o segment[4]>>]
    ELSE [merged_segments  |-> Append(state.merged_segments, state.previous_segment),
          previous_segment |-> segment]

\* mutant of lines 58-63: a merged pair is appended at once and the next
\* segment starts afresh
MergeStepPairs(state, segment) ==
    IF state.previous_segment = NoSegment
    THEN [merged_segments |-> state.merged_segments, previous_segment |-> segment]
    ELSE IF segment[1] = state.previous_segment[1]
    THEN [merged_segments  |-> Append(state.merged_segments,
                                      <<state.previous_segment[1],
                                        state.previous_segment[2],
                                        segment[3],
                                        state.previous_segment[4] \o segment[4]>>),
          previous_segment |-> NoSegment]
    ELSE [merged_segments  |-> Append(state.merged_segments, state.previous_segment),
          previous_segment |-> segment]

\* mutant of lines 58-63: the start of the later segment replaces the start
\* of the earlier one and the end of the earlier one is kept
MergeStepKeepsLaterStart(state, segment) ==
    IF state.previous_segment = NoSegment
    THEN [merged_segments |-> state.merged_segments, previous_segment |-> segment]
    ELSE IF segment[1] = state.previous_segment[1]
    THEN [merged_segments  |-> state.merged_segments,
          previous_segment |-> <<state.previous_segment[1],
                                 segment[2],
                                 state.previous_segment[3],
                                 state.previous_segment[4] \o segment[4]>>]
    ELSE [merged_segments  |-> Append(state.merged_segments, state.previous_segment),
          previous_segment |-> segment]

\* lines 53-66: one segment of the loop; state holds merged_segments and
\* previous_segment
MergeStep(state, segment) ==
    IF state.previous_segment = NoSegment
    THEN [merged_segments |-> state.merged_segments, previous_segment |-> segment]
    ELSE IF segment[1] = state.previous_segment[1]
    THEN [merged_segments  |-> state.merged_segments,
          previous_segment |-> <<state.previous_segment[1],
                                 state.previous_segment[2],
                                 segment[3],
                                 state.previous_segment[4] \o segment[4]>>]
    ELSE [merged_segments  |-> Append(state.merged_segments, state.previous_segment),
          previous_segment |-> segment]

\* mutant of lines 68-69: the segment still held is not appended
MergeFinishDropsLast(state) == state.merged_segments

\* lines 68-71
MergeFinish(state) ==
    IF state.previous_segment # NoSegment
    THEN Append(state.merged_segments, state.previous_segment)
    ELSE state.merged_segments

RECURSIVE MergeLoop(_, _, _)
MergeLoop(attributed, k, state) ==
    IF k > Len(attributed) THEN state
    ELSE MergeLoop(attributed, k + 1, MergeStep(state, attributed[k]))

\* mutant of lines 48-71: the list is returned as it came
MergeConsecutiveSegmentsSkipped(attributed) == attributed

\* lines 48-71
merge_consecutive_segments(attributed) ==
    MergeFinish(MergeLoop(attributed, 1,
                          [merged_segments |-> <<>>, previous_segment |-> NoSegment]))

----------------------------------------------------------------------------
(* Aligner.align *)

\* line 7
DebugMessage == "Combining transcription and diarization..."

\* mutant of lines 73-77: the first segment is returned
GetFirstSegment(annotation) ==
    IF Len(annotation) = 0 THEN NoSegment ELSE annotation[1]

\* lines 73-77: the last segment itersegments yields, None when it yields none
get_last_segment(annotation) ==
    IF Len(annotation) = 0 THEN NoSegment ELSE annotation[Len(annotation)]

\* line 10: .end of None raises AttributeError
LastEndRaises(annotation) == get_last_segment(annotation) = NoSegment

\* lines 17-18
ResolveChunkEnd(chunk_start, chunk_end, last_diarization_end) ==
    IF chunk_end = None
    THEN IF last_diarization_end # None THEN last_diarization_end ELSE chunk_start
    ELSE chunk_end

\* mutant of lines 20-23: a chunk without a match is appended unattributed
AttributeChunkKeepsUnmatched(turns, chunk, last_diarization_end) ==
    LET chunk_start == chunk.timestamp[1]
        chunk_end == ResolveChunkEnd(chunk_start, chunk.timestamp[2],
                                     last_diarization_end)
        match == find_best_match(turns, chunk_start, chunk_end)
    IN  IF match # NoMatch
        THEN << <<match[3], chunk_start, chunk_end, chunk.text>> >>
        ELSE << <<"", chunk_start, chunk_end, chunk.text>> >>

\* lines 13-23: what a chunk appends to speaker_transcriptions
AttributeChunk(turns, chunk, last_diarization_end) ==
    LET chunk_start == chunk.timestamp[1]
        chunk_end == ResolveChunkEnd(chunk_start, chunk.timestamp[2],
                                     last_diarization_end)
        match == find_best_match(turns, chunk_start, chunk_end)
    IN  IF match # NoMatch
        THEN << <<match[3], chunk_start, chunk_end, chunk.text>> >>
        ELSE <<>>

\* lines 12-23
RECURSIVE AttributeFrom(_, _, _, _)
AttributeFrom(turns, chunks, k, last_diarization_end) ==
    IF k > Len(chunks) THEN <<>>
    ELSE AttributeChunk(turns, chunks[k], last_diarization_end)
         \o AttributeFrom(turns, chunks, k + 1, last_diarization_end)

\* speaker_transcriptions before line 25, for a diarization with a last segment
Attribute(turns, chunks) ==
    AttributeFrom(turns, chunks, 1, get_last_segment(turns).end)

\* the variables of Aligner's calls while none is made
AlignerIdle ==
    /\ diarization = <<>>
    /\ timestamps = <<>>
    /\ segments = <<>>
    /\ start_time = None
    /\ end_time = None
    /\ best_match = NoMatch
    /\ speaker_transcriptions = <<>>
    /\ result = <<>>
    /\ log = <<>>

\* the variables of TranscribeOnlyStrategy.run while it is not running
RunIdle ==
    /\ calls = <<>>
    /\ saved_final = <<>>
    /\ saved_enhanced = NoReport
    /\ returned = <<>>

----------------------------------------------------------------------------
(* The calls *)

Init ==
    /\ \E n \in 0..MaxSegments, k \in 0..MaxSegments :
          /\ n + k <= MaxSegments
          /\ \E tu \in TimestampLists(n), tm \in TimestampLists(k) :
                /\ user_timestamps = UserSegments(tu)
                /\ monitor_timestamps = MonitorSegments(tm)
    /\ session_metadata \in SessionMetadatas
    /\ pc = "ready"
    /\ merged = <<>>
    /\ enhanced_format = NoReport
    /\ error = "none"
    /\ AlignerIdle
    /\ RunIdle

\* a call of align(user_timestamps, monitor_timestamps)
CallAlign ==
    /\ pc = "ready"
    /\ merged' = align(user_timestamps, monitor_timestamps)
    /\ pc' = "align_returned"
    /\ UNCHANGED <<user_timestamps, monitor_timestamps, session_metadata,
                   enhanced_format, error, aligner_vars,
                   run_vars>>

\* a call of align_enhanced(user_timestamps, monitor_timestamps,
\* session_metadata) that returns
CallAlignEnhanced ==
    /\ pc = "ready"
    /\ EnhancedError(user_timestamps, monitor_timestamps) = "none"
    /\ enhanced_format' =
          BuildEnhancedFormat(user_timestamps, monitor_timestamps,
                              session_metadata)
    /\ user_timestamps' = TimestampsAfterCall(user_timestamps)
    /\ monitor_timestamps' = TimestampsAfterCall(monitor_timestamps)
    /\ session_metadata' =
          SessionMetadataAfterCall(session_metadata,
                                   Len(user_timestamps) + Len(monitor_timestamps))
    /\ pc' = "align_enhanced_returned"
    /\ UNCHANGED <<merged, error, aligner_vars, run_vars>>

\* a call of align_enhanced that raises, before line 99
CallAlignEnhancedRaises ==
    /\ pc = "ready"
    /\ EnhancedError(user_timestamps, monitor_timestamps) # "none"
    /\ user_timestamps' = TimestampsAfterCall(user_timestamps)
    /\ monitor_timestamps' = TimestampsAfterCall(monitor_timestamps)
    /\ error' = EnhancedError(user_timestamps, monitor_timestamps)
    /\ pc' = "align_enhanced_raised"
    /\ UNCHANGED <<session_metadata, merged, enhanced_format, aligner_vars,
                   run_vars>>

Next ==
    \/ CallAlign
    \/ CallAlignEnhanced
    \/ CallAlignEnhancedRaises

Spec == Init /\ [][Next]_vars

----------------------------------------------------------------------------
(* The calls of Aligner *)

\* the variables of MultiTranscriptionAligner's calls while none is made
MtaIdle ==
    /\ user_timestamps = <<>>
    /\ monitor_timestamps = <<>>
    /\ session_metadata = [timestamp |-> ""]
    /\ merged = <<>>
    /\ enhanced_format = NoReport

\* the arguments of align and find_best_match
InitAlignerArguments ==
    /\ \E n \in 0..MaxItems, k \in 0..MaxItems :
          /\ n + k <= MaxItems
          /\ \E turns \in [1..n -> Turns], ts \in TimestampLists(k) :
                /\ diarization = turns
                /\ timestamps = Chunks(ts)
    /\ segments = <<>>
    /\ pc = "aligner_ready"

\* the arguments of align for a longer chunk list: one turn and up to
\* MaxChunks chunks, or two turns and a chunk less, all on steps of the time
\* grid
InitAlignerChunkRun ==
    /\ \E n \in 1..2, k \in 0..MaxChunks :
          /\ n + k <= MaxChunks + 1
          /\ \E turns \in [1..n -> GridTurns], ts \in [1..k -> GridStamps] :
                /\ diarization = turns
                /\ timestamps = Chunks(ts)
    /\ segments = <<>>
    /\ pc = "aligner_ready"

\* the argument of merge_consecutive_segments
InitMergeArgument ==
    /\ \E n \in 0..MaxAttributed :
          \E choice \in [1..n -> Speakers \X AttributedSpans] :
              segments = AttributedSegments(choice)
    /\ diarization = <<>>
    /\ timestamps = <<>>
    /\ pc = "merge_ready"

InitAligner ==
    /\ MtaIdle
    /\ RunIdle
    /\ error = "none"
    /\ start_time = None
    /\ end_time = None
    /\ best_match = NoMatch
    /\ speaker_transcriptions = <<>>
    /\ result = <<>>
    /\ log = <<>>
    /\ (InitAlignerArguments \/ InitAlignerChunkRun \/ InitMergeArgument)

\* a call of align(transcription, timestamps, diarization) that returns
CallAlignerAlign ==
    /\ pc = "aligner_ready"
    /\ ~LastEndRaises(diarization)
    /\ log' = Append(log, DebugMessage)
    /\ speaker_transcriptions' = Attribute(diarization, timestamps)
    /\ result' = merge_consecutive_segments(Attribute(diarization, timestamps))
    /\ pc' = "aligner_align_returned"
    /\ UNCHANGED <<mta_vars, run_vars, error, diarization, timestamps, segments,
                   start_time, end_time, best_match>>

\* a call of align that raises at line 10
CallAlignerAlignRaises ==
    /\ pc = "aligner_ready"
    /\ LastEndRaises(diarization)
    /\ log' = Append(log, DebugMessage)
    /\ error' = "AttributeError"
    /\ pc' = "aligner_align_raised"
    /\ UNCHANGED <<mta_vars, run_vars, diarization, timestamps, segments, start_time,
                   end_time, best_match, speaker_transcriptions, result>>

\* a call of find_best_match(diarization, start_time, end_time) with the
\* bounds of a chunk
CallFindBestMatch ==
    /\ pc = "aligner_ready"
    /\ \E k \in DOMAIN timestamps :
          /\ timestamps[k].timestamp[2] # None
          /\ start_time' = timestamps[k].timestamp[1]
          /\ end_time' = timestamps[k].timestamp[2]
          /\ best_match' = find_best_match(diarization,
                                           timestamps[k].timestamp[1],
                                           timestamps[k].timestamp[2])
    /\ pc' = "find_best_match_returned"
    /\ UNCHANGED <<mta_vars, run_vars, error, diarization, timestamps, segments,
                   speaker_transcriptions, result, log>>

\* a call of merge_consecutive_segments(segments)
CallMergeConsecutiveSegments ==
    /\ pc = "merge_ready"
    /\ result' = merge_consecutive_segments(segments)
    /\ pc' = "merge_returned"
    /\ UNCHANGED <<mta_vars, run_vars, error, diarization, timestamps, segments,
                   start_time, end_time, best_match, speaker_transcriptions, log>>

\* a call of merge_consecutive_segments on the list the last call returned
CallMergeConsecutiveSegmentsAgain ==
    /\ pc = "merge_returned"
    /\ segments' = result
    /\ result' = merge_consecutive_segments(result)
    /\ pc' = "merge_again_returned"
    /\ UNCHANGED <<mta_vars, run_vars, error, diarization, timestamps,
                   start_time, end_time, best_match, speaker_transcriptions, log>>

NextAligner ==
    \/ CallAlignerAlign
    \/ CallAlignerAlignRaises
    \/ CallFindBestMatch
    \/ CallMergeConsecutiveSegments
    \/ CallMergeConsecutiveSegmentsAgain

SpecAligner == InitAligner /\ [][NextAligner]_vars

----------------------------------------------------------------------------
(* TranscribeOnlyStrategy.run *)

\* total number of segments the transcriber returns for the two channels
MaxRunSegments == 2

\* the timestamps of transcribe's (None, None), returned when the pipeline
\* fails: Python's None where a list is expected
NoTimestamps == [k \in {0} |-> None]

\* len(stream) of a stream that is a list
StreamLen(stream) == IF stream = NoTimestamps THEN 0 ELSE Len(stream)

\* the paths capture returns and the names run saves the channels under
MicWav == "mic.wav"
MonitorWav == "monitor.wav"
MicJson == "mic.json"
MonitorJson == "monitor.json"

\* mutant of lines 17-58: the session metadata is generated after the
\* enhanced alignment
RunStepsMetadataLate ==
    <<"fetch_audio", "transcribe_user", "transcribe_monitor",
      "save_mic", "save_monitor", "align", "save_final_transcription",
      "align_enhanced", "generate_session_metadata",
      "save_enhanced_transcription", "return">>

\* mutant of lines 17-58: the legacy result is saved after the enhanced
\* alignment
RunStepsSaveFinalLate ==
    <<"fetch_audio", "transcribe_user", "transcribe_monitor",
      "save_mic", "save_monitor", "align", "generate_session_metadata",
      "align_enhanced", "save_final_transcription",
      "save_enhanced_transcription", "return">>

\* lines 17-58: the statements of run in program order
RunSteps ==
    <<"fetch_audio", "transcribe_user", "transcribe_monitor",
      "save_mic", "save_monitor", "align", "save_final_transcription",
      "generate_session_metadata", "align_enhanced",
      "save_enhanced_transcription", "return">>

\* the statement after a statement that completed
StepAfter(step) ==
    RunSteps[(CHOOSE k \in DOMAIN RunSteps : RunSteps[k] = step) + 1]

\* mutant: run catches the exception of a callee and returns the legacy
\* transcription
RaisedSwallowed(exception, aligned_transcription) ==
    [pc |-> "run_returned", error |-> "none", returned |-> aligned_transcription]

\* no statement of run stands in a try: the exception of a callee ends run
\* and reaches its caller, nothing is returned
Raised(exception, aligned_transcription) ==
    [pc |-> "run_raised", error |-> exception, returned |-> <<>>]

\* mutant of line 58: the conversation of the enhanced report is returned
ReturnsConversation(aligned_transcription, enhanced_transcription) ==
    enhanced_transcription.conversation

\* line 58
ReturnValue(aligned_transcription, enhanced_transcription) ==
    aligned_transcription

\* multi_transcription_aligner.py lines 26, 33, 36: len(None) raises
\* TypeError; the user's len is taken first, the monitor's at line 36 at the
\* latest
AlignRaises(u, m) == u = NoTimestamps \/ m = NoTimestamps

\* config.py lines 98-106: a dict with the keys timestamp and
\* duration_seconds
GeneratedSessionMetadatas ==
    {metadata \in SessionMetadatas :
        DOMAIN metadata = {"timestamp", "duration_seconds"}}

\* run is entered; user_timestamps and monitor_timestamps stand for
\* user_transcription_timestamps and monitor_transcription_timestamps,
\* merged for aligned_transcription, enhanced_format for
\* enhanced_transcription
InitRun ==
    /\ MtaIdle
    /\ AlignerIdle
    /\ RunIdle
    /\ error = "none"
    /\ pc = RunSteps[1]

\* a callee of run raises
Raise(function, argument, exception) ==
    /\ calls' = Append(calls, <<function, argument, "raised">>)
    /\ pc' = Raised(exception, merged).pc
    /\ error' = Raised(exception, merged).error
    /\ returned' = Raised(exception, merged).returned

\* line 17, strategy.py line 23: capture returns the two paths
FetchAudio ==
    /\ pc = "fetch_audio"
    /\ calls' = Append(calls, <<"capture", "", "returned">>)
    /\ pc' = StepAfter("fetch_audio")
    /\ UNCHANGED <<mta_vars, aligner_vars, saved_final, saved_enhanced,
                   returned, error>>

\* line 17: capture raises (two_channel.py lines 24, 41: mkdir, Popen)
FetchAudioRaises ==
    /\ pc = "fetch_audio"
    /\ Raise("capture", "", "OSError")
    /\ UNCHANGED <<mta_vars, aligner_vars, saved_final, saved_enhanced>>

\* lines 20, 23: transcribe returns (text, timestamps), or (None, None)
\* when the pipeline fails (transcriber.py lines 69-79)
TranscribeUser ==
    /\ pc = "transcribe_user"
    /\ \/ \E n \in 0..MaxRunSegments :
             \E ts \in TimestampLists(n) : user_timestamps' = UserSegments(ts)
       \/ user_timestamps' = NoTimestamps
    /\ calls' = Append(calls, <<"transcribe", MicWav, "returned">>)
    /\ pc' = StepAfter("transcribe_user")
    /\ UNCHANGED <<monitor_timestamps, session_metadata, merged,
                   enhanced_format, aligner_vars, saved_final, saved_enhanced,
                   returned, error>>

\* lines 21, 24
TranscribeMonitor ==
    /\ pc = "transcribe_monitor"
    /\ \/ \E n \in 0..(MaxRunSegments - StreamLen(user_timestamps)) :
             \E ts \in TimestampLists(n) :
                 monitor_timestamps' = MonitorSegments(ts)
       \/ monitor_timestamps' = NoTimestamps
    /\ calls' = Append(calls, <<"transcribe", MonitorWav, "returned">>)
    /\ pc' = StepAfter("transcribe_monitor")
    /\ UNCHANGED <<user_timestamps, session_metadata, merged, enhanced_format,
                   aligner_vars, saved_final, saved_enhanced, returned, error>>

\* line 27: save_transcription("mic.json", ...) returns
SaveMic ==
    /\ pc = "save_mic"
    /\ calls' = Append(calls, <<"save_transcription", MicJson, "returned">>)
    /\ pc' = StepAfter("save_mic")
    /\ UNCHANGED <<mta_vars, aligner_vars, saved_final, saved_enhanced,
                   returned, error>>

\* line 27: save_transcription logs and re-raises (config.py lines 71-74)
SaveMicRaises ==
    /\ pc = "save_mic"
    /\ Raise("save_transcription", MicJson, "OSError")
    /\ UNCHANGED <<mta_vars, aligner_vars, saved_final, saved_enhanced>>

\* line 28
SaveMonitor ==
    /\ pc = "save_monitor"
    /\ calls' = Append(calls, <<"save_transcription", MonitorJson, "returned">>)
    /\ pc' = StepAfter("save_monitor")
    /\ UNCHANGED <<mta_vars, aligner_vars, saved_final, saved_enhanced,
                   returned, error>>

SaveMonitorRaises ==
    /\ pc = "save_monitor"
    /\ Raise("save_transcription", MonitorJson, "OSError")
    /\ UNCHANGED <<mta_vars, aligner_vars, saved_final, saved_enhanced>>

\* lines 31-33
RunAlign ==
    /\ pc = "align"
    /\ ~AlignRaises(user_timestamps, monitor_timestamps)
    /\ merged' = align(user_timestamps, monitor_timestamps)
    /\ calls' = Append(calls, <<"align", "", "returned">>)
    /\ pc' = StepAfter("align")
    /\ UNCHANGED <<user_timestamps, monitor_timestamps, session_metadata,
                   enhanced_format, aligner_vars, saved_final, saved_enhanced,
                   returned, error>>

\* lines 31-33: a stream is None
RunAlignRaises ==
    /\ pc = "align"
    /\ AlignRaises(user_timestamps, monitor_timestamps)
    /\ Raise("align", "", "TypeError")
    /\ UNCHANGED <<mta_vars, aligner_vars, saved_final, saved_enhanced>>

\* line 36
SaveFinalTranscription ==
    /\ pc = "save_final_transcription"
    /\ saved_final' = merged
    /\ calls' = Append(calls, <<"save_final_transcription", "", "returned">>)
    /\ pc' = StepAfter("save_final_transcription")
    /\ UNCHANGED <<mta_vars, aligner_vars, saved_enhanced, returned, error>>

\* line 36: save_final_transcription logs and re-raises (config.py 83-85)
SaveFinalTranscriptionRaises ==
    /\ pc = "save_final_transcription"
    /\ Raise("save_final_transcription", "", "OSError")
    /\ UNCHANGED <<mta_vars, aligner_vars, saved_final, saved_enhanced>>

\* line 39
GenerateSessionMetadata ==
    /\ pc = "generate_session_metadata"
    /\ session_metadata' \in GeneratedSessionMetadatas
    /\ calls' = Append(calls, <<"generate_session_metadata", "", "returned">>)
    /\ pc' = StepAfter("generate_session_metadata")
    /\ UNCHANGED <<user_timestamps, monitor_timestamps, merged,
                   enhanced_format, aligner_vars, saved_final, saved_enhanced,
                   returned, error>>

\* lines 40-44
RunAlignEnhanced ==
    /\ pc = "align_enhanced"
    /\ EnhancedError(user_timestamps, monitor_timestamps) = "none"
    /\ enhanced_format' =
          BuildEnhancedFormat(user_timestamps, monitor_timestamps,
                              session_metadata)
    /\ user_timestamps' = TimestampsAfterCall(user_timestamps)
    /\ monitor_timestamps' = TimestampsAfterCall(monitor_timestamps)
    /\ session_metadata' =
          SessionMetadataAfterCall(session_metadata,
                                   Len(user_timestamps) + Len(monitor_timestamps))
    /\ calls' = Append(calls, <<"align_enhanced", "", "returned">>)
    /\ pc' = StepAfter("align_enhanced")
    /\ UNCHANGED <<merged, aligner_vars, saved_final, saved_enhanced, returned,
                   error>>

\* lines 40-44: align_enhanced raises
RunAlignEnhancedRaises ==
    /\ pc = "align_enhanced"
    /\ EnhancedError(user_timestamps, monitor_timestamps) # "none"
    /\ Raise("align_enhanced", "",
             EnhancedError(user_timestamps, monitor_timestamps))
    /\ UNCHANGED <<mta_vars, aligner_vars, saved_final, saved_enhanced>>

\* line 47
SaveEnhancedTranscription ==
    /\ pc = "save_enhanced_transcription"
    /\ saved_enhanced' = enhanced_format
    /\ calls' = Append(calls, <<"save_enhanced_transcription", "", "returned">>)
    /\ pc' = StepAfter("save_enhanced_transcription")
    /\ UNCHANGED <<mta_vars, aligner_vars, saved_final, returned, error>>

\* line 47: save_enhanced_transcription logs and re-raises (config.py
\* lines 94-96)
SaveEnhancedTranscriptionRaises ==
    /\ pc = "save_enhanced_transcription"
    /\ Raise("save_enhanced_transcription", "", "OSError")
    /\ UNCHANGED <<mta_vars, aligner_vars, saved_final, saved_enhanced>>

\* lines 50-58: the summary is printed and the legacy list returned
Return ==
    /\ pc = "return"
    /\ returned' = ReturnValue(merged, enhanced_format)
    /\ pc' = "run_returned"
    /\ UNCHANGED <<mta_vars, aligner_vars, calls, saved_final, saved_enhanced,
                   error>>

NextRun ==
    \/ FetchAudio
    \/ FetchAudioRaises
    \/ TranscribeUser
    \/ TranscribeMonitor
    \/ SaveMic
    \/ SaveMicRaises
    \/ SaveMonitor
    \/ SaveMonitorRaises
    \/ RunAlign
    \/ RunAlignRaises
    \/ SaveFinalTranscription
    \/ SaveFinalTranscriptionRaises
    \/ GenerateSessionMetadata
    \/ RunAlignEnhanced
    \/ RunAlignEnhancedRaises
    \/ SaveEnhancedTranscription
    \/ SaveEnhancedTranscriptionRaises
    \/ Return

SpecRun == InitRun /\ [][NextRun]_vars

----------------------------------------------------------------------------
(* Properties of align *)

FromUser(segment) == \E k \in DOMAIN user_timestamps : user_timestamps[k] = segment
FromMonitor(segment) == \E k \in DOMAIN monitor_timestamps : monitor_timestamps[k] = segment

SortedByStart(list) ==
    \A k \in 1..(Len(list) - 1) :
        list[k].timestamp[1] <= list[k + 1].timestamp[1]

\* number of user segments among the first n elements of merged
UsersInPrefix(n) == Cardinality({p \in 1..n : FromUser(merged[p])})

\* C1: align returns len(A) + len(B) elements; the elements of A appear in
\* it exactly once and in their input order, and so do the elements of B.
C1_AlignInterleaves ==
    pc = "align_returned" =>
        /\ Len(merged) = Len(user_timestamps) + Len(monitor_timestamps)
        /\ SelectSeq(merged, FromUser) = user_timestamps
        /\ SelectSeq(merged, FromMonitor) = monitor_timestamps

\* a monitor segment was emitted between two user segments
C1_Witness ==
    /\ pc = "align_returned"
    /\ Len(merged) = 3
    /\ FromUser(merged[1]) /\ FromMonitor(merged[2]) /\ FromUser(merged[3])

\* C2: when both input lists are sorted by start, the list align returns is
\* sorted by start.
C2_AlignSorted ==
    (/\ pc = "align_returned"
     /\ SortedByStart(user_timestamps)
     /\ SortedByStart(monitor_timestamps)) => SortedByStart(merged)

\* sorted inputs with distinct starts, a monitor segment first
C2_Witness ==
    /\ pc = "align_returned"
    /\ SortedByStart(user_timestamps) /\ SortedByStart(monitor_timestamps)
    /\ Len(merged) = 3
    /\ FromMonitor(merged[1]) /\ FromUser(merged[2]) /\ FromMonitor(merged[3])
    /\ merged[1].timestamp[1] < merged[2].timestamp[1]
    /\ merged[2].timestamp[1] < merged[3].timestamp[1]

\* C3: whenever the loop of align stands at a user head and a monitor head
\* with equal start, the user head is emitted next; for sorted inputs every
\* user element precedes every monitor element with the same start.
C3_AlignUserFirstOnTie ==
    pc = "align_returned" =>
        /\ \A i \in DOMAIN user_timestamps, j \in DOMAIN monitor_timestamps :
              (/\ user_timestamps[i].timestamp[1] = monitor_timestamps[j].timestamp[1]
               /\ UsersInPrefix(i + j - 2) = i - 1)
              => merged[i + j - 1] = user_timestamps[i]
        /\ (SortedByStart(user_timestamps) /\ SortedByStart(monitor_timestamps))
              => \A p, q \in DOMAIN merged :
                    (/\ FromUser(merged[p]) /\ FromMonitor(merged[q])
                     /\ merged[p].timestamp[1] = merged[q].timestamp[1]) => p < q

\* sorted inputs, a tie that is not at the front of the lists
C3_Witness ==
    /\ pc = "align_returned"
    /\ SortedByStart(user_timestamps) /\ SortedByStart(monitor_timestamps)
    /\ Len(merged) = 3
    /\ FromMonitor(merged[1]) /\ FromUser(merged[2]) /\ FromMonitor(merged[3])
    /\ merged[1].timestamp[1] < merged[2].timestamp[1]
    /\ merged[2].timestamp[1] = merged[3].timestamp[1]

----------------------------------------------------------------------------
(* Properties of align_enhanced *)

Conversation == enhanced_format.conversation
SummaryHints == enhanced_format.summary_hints

\* position of an entry's segment in user_timestamps + monitor_timestamps
InputPosition(entry) ==
    CHOOSE k \in 1..(Len(user_timestamps) + Len(monitor_timestamps)) :
        (user_timestamps \o monitor_timestamps)[k].text = entry.text

EntriesOf(speaker) == {p \in DOMAIN Conversation : Conversation[p].speaker = speaker}

RECURSIVE SumOfDurations(_)
SumOfDurations(positions) ==
    IF positions = {} THEN 0
    ELSE LET p == CHOOSE x \in positions : TRUE
         IN  Conversation[p].duration + SumOfDurations(positions \ {p})

\* C4: the conversation align_enhanced returns is sorted by start_time, also
\* when the input lists are not sorted.
C4_ConversationSorted ==
    pc = "align_enhanced_returned" =>
        \A i \in 1..(Len(Conversation) - 1) :
            Conversation[i].start_time <= Conversation[i + 1].start_time

\* both input lists were out of order
C4_Witness ==
    /\ pc = "align_enhanced_returned"
    /\ Len(user_timestamps) = 2 /\ Len(monitor_timestamps) >= 1
    /\ user_timestamps[1].timestamp[1] > user_timestamps[2].timestamp[1]
    /\ monitor_timestamps[1].timestamp[1] < user_timestamps[2].timestamp[1]

\* C5: entries of the conversation with equal start_time are in the order of
\* the input: user before monitor, and input order within a channel.
C5_TiesKeepInputOrder ==
    pc = "align_enhanced_returned" =>
        \A p, q \in DOMAIN Conversation :
            (p < q /\ Conversation[p].start_time = Conversation[q].start_time)
            => InputPosition(Conversation[p]) < InputPosition(Conversation[q])

\* two user entries and a monitor entry with one start_time, behind an entry
\* the sort moved to the front
C5_Witness ==
    /\ pc = "align_enhanced_returned"
    /\ Len(Conversation) = 3
    /\ Len(user_timestamps) = 2
    /\ Conversation[1].start_time = Conversation[2].start_time
    /\ Conversation[2].start_time = Conversation[3].start_time
    /\ Conversation[1].end_time # Conversation[2].end_time

\* C6: every user segment has exactly one entry with speaker User, source mic
\* and its start, end and text; every monitor segment exactly one entry with
\* speaker Others and source monitor; the entries per speaker are as many as
\* the segments per channel, and speaker is User exactly when source is mic.
C6_SegmentsMapped ==
    pc = "align_enhanced_returned" =>
        /\ \A k \in DOMAIN user_timestamps :
              Cardinality({p \in DOMAIN Conversation :
                  /\ Conversation[p].speaker = "User"
                  /\ Conversation[p].source = "mic"
                  /\ Conversation[p].start_time = user_timestamps[k].timestamp[1]
                  /\ Conversation[p].end_time = user_timestamps[k].timestamp[2]
                  /\ Conversation[p].text = user_timestamps[k].text}) = 1
        /\ \A k \in DOMAIN monitor_timestamps :
              Cardinality({p \in DOMAIN Conversation :
                  /\ Conversation[p].speaker = "Others"
                  /\ Conversation[p].source = "monitor"
                  /\ Conversation[p].start_time = monitor_timestamps[k].timestamp[1]
                  /\ Conversation[p].end_time = monitor_timestamps[k].timestamp[2]
                  /\ Conversation[p].text = monitor_timestamps[k].text}) = 1
        /\ Cardinality(EntriesOf("User")) = Len(user_timestamps)
        /\ Cardinality(EntriesOf("Others")) = Len(monitor_timestamps)
        /\ \A p \in DOMAIN Conversation :
              /\ Conversation[p].speaker \in {"User", "Others"}
              /\ Conversation[p].speaker = "User" <=> Conversation[p].source = "mic"

\* segments of both channels, the monitor's first in the conversation
C6_Witness ==
    /\ pc = "align_enhanced_returned"
    /\ Len(user_timestamps) >= 1 /\ Len(monitor_timestamps) >= 2
    /\ Conversation[1].speaker = "Others"
    /\ Conversation[1].end_time > Conversation[1].start_time

\* C7: total_segments of the summary hints and of the session metadata both
\* equal the length of the conversation and len(user) + len(monitor), also
\* when the caller's metadata has a total_segments key.
C7_TotalSegments ==
    pc = "align_enhanced_returned" =>
        /\ SummaryHints.total_segments = Len(Conversation)
        /\ enhanced_format.session_metadata["total_segments"] = Len(Conversation)
        /\ Len(Conversation) = Len(user_timestamps) + Len(monitor_timestamps)

\* the caller supplied another total_segments
C7_Witness ==
    /\ pc = "align_enhanced_returned"
    /\ "total_segments" \in DOMAIN session_metadata
    /\ session_metadata["total_segments"] # Len(Conversation)
    /\ Len(Conversation) = 2

\* C8: silence_gaps is the number of indices i >= 1 of the conversation with
\* start_time[i] - end_time[i-1] strictly greater than 1.0 second.
C8_SilenceGaps ==
    pc = "align_enhanced_returned" =>
        SummaryHints.silence_gaps =
            Cardinality({i \in 2..Len(Conversation) :
                Conversation[i].start_time - Conversation[i - 1].end_time > 1000})

\* a gap of exactly 1.0 s, not counted, and one of more, counted
C8_Witness ==
    /\ pc = "align_enhanced_returned"
    /\ Len(Conversation) = 3
    /\ Conversation[2].start_time - Conversation[1].end_time = 1000
    /\ Conversation[3].start_time - Conversation[2].end_time > 1000
    /\ SummaryHints.silence_gaps = 1

\* an overlap and a zero gap, neither counted
C8_WitnessOverlap ==
    /\ pc = "align_enhanced_returned"
    /\ Len(Conversation) = 3
    /\ Conversation[2].start_time - Conversation[1].end_time < 0
    /\ Conversation[3].start_time - Conversation[2].end_time = 0
    /\ SummaryHints.silence_gaps = 0

\* C9: every entry's duration is round(end_time - start_time, 2), 0 when end
\* equals start; user_talk_time_seconds is the rounded sum of the duration
\* fields of the User entries and others_talk_time_seconds that of the
\* Others entries.
C9_TalkTimes ==
    pc = "align_enhanced_returned" =>
        /\ \A p \in DOMAIN Conversation :
              /\ Conversation[p].duration =
                    Round2(Conversation[p].end_time - Conversation[p].start_time)
              /\ Conversation[p].end_time = Conversation[p].start_time
                    => Conversation[p].duration = 0
        /\ SummaryHints.user_talk_time_seconds =
              Round2(SumOfDurations(EntriesOf("User")))
        /\ SummaryHints.others_talk_time_seconds =
              Round2(SumOfDurations(EntriesOf("Others")))

\* two User entries whose rounded durations add up to another value than
\* their exact durations do, and an Others entry of length zero
C9_Witness ==
    /\ pc = "align_enhanced_returned"
    /\ Len(user_timestamps) = 2 /\ Len(monitor_timestamps) = 1
    /\ \A k \in 1..2 :
          user_timestamps[k].timestamp[2] - user_timestamps[k].timestamp[1] = 4
    /\ SummaryHints.user_talk_time_seconds = 0
    /\ monitor_timestamps[1].timestamp[2] = monitor_timestamps[1].timestamp[1]
    /\ SummaryHints.others_talk_time_seconds = 0

\* C10: align_enhanced called with two empty lists returns a report with an
\* empty conversation, total_segments 0 and all-zero summary hints; no call
\* raises a division by zero.
C10_EmptyInputs ==
    /\ error # "ZeroDivisionError"
    /\ (/\ pc \in {"align_enhanced_returned", "align_enhanced_raised"}
        /\ Len(user_timestamps) = 0
        /\ Len(monitor_timestamps) = 0)
       => /\ pc = "align_enhanced_returned"
          /\ Len(Conversation) = 0
          /\ enhanced_format.session_metadata["total_segments"] = 0
          /\ SummaryHints = [user_talk_time_seconds   |-> 0,
                             others_talk_time_seconds |-> 0,
                             silence_gaps             |-> 0,
                             avg_segment_length       |-> 0,
                             total_segments           |-> 0]

\* the call with two empty lists has returned
C10_Witness ==
    /\ pc = "align_enhanced_returned"
    /\ Len(user_timestamps) = 0
    /\ Len(monitor_timestamps) = 0
    /\ SummaryHints.avg_segment_length = 0

\* C11: the session_metadata of the report holds every caller-supplied key
\* other than total_segments and channels with the caller's value, and
\* total_segments = the conversation length and channels = {mic: User,
\* monitor: Others}, also when the caller supplied those two keys.
C11_SessionMetadataMerged ==
    pc = "align_enhanced_returned" =>
        LET report_metadata == enhanced_format.session_metadata
        IN  /\ DOMAIN report_metadata =
                  DOMAIN session_metadata \cup {"total_segments", "channels"}
            /\ \A key \in DOMAIN session_metadata \ {"total_segments", "channels"} :
                  report_metadata[key] = session_metadata[key]
            /\ report_metadata["total_segments"] = Len(Conversation)
            /\ report_metadata["channels"] = [mic |-> "User", monitor |-> "Others"]

\* the caller supplied timestamp, duration_seconds and other values for
\* both computed keys
C11_Witness ==
    /\ pc = "align_enhanced_returned"
    /\ {"timestamp", "duration_seconds", "total_segments", "channels"}
          \subseteq DOMAIN session_metadata
    /\ session_metadata["channels"] # [mic |-> "User", monitor |-> "Others"]
    /\ session_metadata["total_segments"] # Len(Conversation)
    /\ enhanced_format.session_metadata["duration_seconds"] = 1520
    /\ Len(Conversation) = 1

----------------------------------------------------------------------------
(* Properties of Aligner.find_best_match *)

\* max(0, min(e, turn.end) - max(s, turn.start))
Overlap(turn, s, e) ==
    LET length == (IF e <= turn.end THEN e ELSE turn.end)
                  - (IF s >= turn.start THEN s ELSE turn.start)
    IN  IF length > 0 THEN length ELSE 0

TurnTuple(turn) == <<turn.start, turn.end, turn.speaker>>

\* C12: find_best_match returns a turn whose overlap with [s, e] is strictly
\* positive and not less than that of any turn, and returns None exactly
\* when no turn has a strictly positive overlap, whatever the order of the
\* turns.
C12_BestMatchMaximal ==
    pc = "find_best_match_returned" =>
        /\ best_match = NoMatch <=>
              \A k \in DOMAIN diarization :
                  Overlap(diarization[k], start_time, end_time) = 0
        /\ best_match # NoMatch =>
              \E k \in DOMAIN diarization :
                  /\ best_match = TurnTuple(diarization[k])
                  /\ Overlap(diarization[k], start_time, end_time) > 0
                  /\ \A j \in DOMAIN diarization :
                        Overlap(diarization[j], start_time, end_time)
                            <= Overlap(diarization[k], start_time, end_time)

\* turns not ordered by start, both overlapping, the second the longer one
C12_Witness ==
    /\ pc = "find_best_match_returned"
    /\ Len(diarization) = 2
    /\ diarization[1].start > diarization[2].start
    /\ Overlap(diarization[1], start_time, end_time) > 0
    /\ Overlap(diarization[2], start_time, end_time)
          > Overlap(diarization[1], start_time, end_time)
    /\ best_match = TurnTuple(diarization[2])
    /\ best_match # TurnTuple(diarization[1])

\* the call returned None for turns that only touch the chunk
C12_WitnessNone ==
    /\ pc = "find_best_match_returned"
    /\ Len(diarization) = 2
    /\ diarization[1].end = start_time
    /\ diarization[2].start = end_time
    /\ best_match = NoMatch

\* C13: when several turns have the same maximal positive overlap,
\* find_best_match returns the first of them in iteration order.
C13_FirstOfEqualWins ==
    pc = "find_best_match_returned" =>
        \A k \in DOMAIN diarization :
            (/\ Overlap(diarization[k], start_time, end_time) > 0
             /\ \A j \in DOMAIN diarization :
                   Overlap(diarization[j], start_time, end_time)
                       <= Overlap(diarization[k], start_time, end_time)
             /\ \A j \in 1..(k - 1) :
                   Overlap(diarization[j], start_time, end_time)
                       < Overlap(diarization[k], start_time, end_time))
            => best_match = TurnTuple(diarization[k])

\* two turns of different speakers with the same maximal overlap
C13_Witness ==
    /\ pc = "find_best_match_returned"
    /\ Len(diarization) = 2
    /\ Overlap(diarization[1], start_time, end_time) > 0
    /\ Overlap(diarization[1], start_time, end_time)
          = Overlap(diarization[2], start_time, end_time)
    /\ diarization[1].speaker # diarization[2].speaker
    /\ best_match = TurnTuple(diarization[1])

----------------------------------------------------------------------------
(* Properties of Aligner.align *)

AlignerAlignDone == pc \in {"aligner_align_returned", "aligner_align_raised"}

HasNullEnd(k) == timestamps[k].timestamp[2] = None

\* the end of the last turn the diarization yields
LastTurnEnd == diarization[Len(diarization)].end

\* the end chunk k is matched with
ResolvedEnd(k) ==
    IF HasNullEnd(k) THEN LastTurnEnd ELSE timestamps[k].timestamp[2]

ChunkOverlap(k, turn) == Overlap(turn, timestamps[k].timestamp[1], ResolvedEnd(k))

HasOverlap(k) == \E j \in DOMAIN diarization : ChunkOverlap(k, diarization[j]) > 0

\* the first turn with the greatest overlap with chunk k
BestTurn(k) ==
    diarization[CHOOSE j \in DOMAIN diarization :
        /\ \A i \in DOMAIN diarization :
              ChunkOverlap(k, diarization[i]) <= ChunkOverlap(k, diarization[j])
        /\ \A i \in 1..(j - 1) :
              ChunkOverlap(k, diarization[i]) < ChunkOverlap(k, diarization[j])]

\* positions of chunk k in speaker_transcriptions (texts are per chunk)
EmittedAt(k) ==
    {p \in DOMAIN speaker_transcriptions :
        speaker_transcriptions[p][4] = timestamps[k].text}

KeptChunks == {k \in DOMAIN timestamps : HasOverlap(k)}

RECURSIVE ConcatTexts(_, _)
ConcatTexts(attributed, k) ==
    IF k > Len(attributed) THEN ""
    ELSE attributed[k][4] \o ConcatTexts(attributed, k + 1)

\* C14 as claimed: with a non-empty diarization every chunk whose end is
\* None is matched and emitted with the end of the last turn as its end.
C14_EveryNullEndChunkEmitted ==
    pc = "aligner_align_returned" =>
        \A k \in DOMAIN timestamps :
            HasNullEnd(k) =>
                \E p \in EmittedAt(k) : speaker_transcriptions[p][3] = LastTurnEnd

\* C14 amended: with a non-empty diarization a chunk whose end is None is
\* matched over [start, end of the last turn yielded]; it is emitted exactly
\* when a turn overlaps that span, and then once, with the speaker of the
\* best turn for that span and with the end of the last turn as its end.
C14_NullEndResolvedFromLastTurn ==
    pc = "aligner_align_returned" =>
        \A k \in DOMAIN timestamps :
            HasNullEnd(k) =>
                /\ EmittedAt(k) # {} <=>
                      \E j \in DOMAIN diarization :
                          Overlap(diarization[j], timestamps[k].timestamp[1],
                                  LastTurnEnd) > 0
                /\ Cardinality(EmittedAt(k)) <= 1
                /\ \A p \in EmittedAt(k) :
                      speaker_transcriptions[p] =
                          <<BestTurn(k).speaker, timestamps[k].timestamp[1],
                            LastTurnEnd, timestamps[k].text>>

\* a chunk without end is emitted with the end of the last turn, which is
\* not the greatest end of the diarization, for a speaker it meets only
\* because of that end
C14_Witness ==
    /\ pc = "aligner_align_returned"
    /\ Len(diarization) = 2 /\ Len(timestamps) = 1
    /\ HasNullEnd(1)
    /\ diarization[2].end < diarization[1].end
    /\ diarization[1].speaker # diarization[2].speaker
    /\ Len(speaker_transcriptions) = 1
    /\ speaker_transcriptions[1][3] = diarization[2].end
    /\ speaker_transcriptions[1][1] = diarization[2].speaker

\* C15: with a diarization without turns, a call of align with a chunk
\* whose end is None completes and returns a result; no error is raised.
C15_EmptyDiarizationReturns ==
    (/\ AlignerAlignDone
     /\ Len(diarization) = 0
     /\ \E k \in DOMAIN timestamps : HasNullEnd(k))
    => /\ pc = "aligner_align_returned"
       /\ error = "none"

\* C16: a call of align fails for no chunk (only at line 10, before the
\* chunks are read); of a call that returns, speaker_transcriptions holds
\* exactly the chunks with a strictly positive overlap, in chunk order, each
\* under the speaker of its best turn, and the result holds their texts in
\* that order and no text of another chunk.
C16_UnmatchedDroppedMatchedKept ==
    /\ pc = "aligner_align_raised" => Len(diarization) = 0
    /\ pc = "aligner_align_returned" =>
          /\ Len(speaker_transcriptions) = Cardinality(KeptChunks)
          /\ \A k \in KeptChunks :
                speaker_transcriptions[Cardinality({j \in KeptChunks : j <= k})] =
                    <<BestTurn(k).speaker, timestamps[k].timestamp[1],
                      ResolvedEnd(k), timestamps[k].text>>
          /\ ConcatTexts(result, 1) = ConcatTexts(speaker_transcriptions, 1)
          /\ \A p \in DOMAIN result :
                \E q \in DOMAIN speaker_transcriptions :
                    result[p][1] = speaker_transcriptions[q][1]

\* the first chunk meets no turn and is dropped, the second is kept
C16_Witness ==
    /\ pc = "aligner_align_returned"
    /\ Len(timestamps) = 2
    /\ ~HasOverlap(1) /\ HasOverlap(2)
    /\ Len(result) = 1
    /\ result[1][4] = timestamps[2].text

\* chunks the call found no turn for
DroppedCount == Len(timestamps) - Len(speaker_transcriptions)

\* C17: the number of chunks align dropped can be told from what the caller
\* gets, the returned list and the log: a call that returns and logs what a
\* call without chunks returns and logs has dropped no chunk.
C17_DroppedCountObservable ==
    (/\ pc = "aligner_align_returned"
     /\ Len(result) = 0
     /\ log = <<DebugMessage>>) => DroppedCount = 0

----------------------------------------------------------------------------
(* Properties of Aligner.merge_consecutive_segments *)

MergeDone == pc \in {"merge_returned", "merge_again_returned"}

IsRunStart(k) == k = 1 \/ segments[k][1] # segments[k - 1][1]

RunStarts == {k \in DOMAIN segments : IsRunStart(k)}

\* the last position of the run that starts at k
RunEnd(k) ==
    CHOOSE j \in k..Len(segments) :
        /\ \A i \in k..j : segments[i][1] = segments[k][1]
        /\ j = Len(segments) \/ segments[j + 1][1] # segments[k][1]

RECURSIVE RunText(_, _)
RunText(k, j) ==
    IF k > j THEN "" ELSE segments[k][4] \o RunText(k + 1, j)

\* C18: merge_consecutive_segments replaces every maximal run of adjacent
\* entries of one speaker by one entry with the start of the run's first
\* entry, the end of its last entry and the run's texts concatenated in
\* order; the runs keep their order and separate runs are not merged.
C18_RunsMerged ==
    MergeDone =>
        /\ Len(result) = Cardinality(RunStarts)
        /\ \A k \in RunStarts :
              result[Cardinality({j \in RunStarts : j <= k})] =
                  <<segments[k][1], segments[k][2], segments[RunEnd(k)][3],
                    RunText(k, RunEnd(k))>>

\* a run of two, another speaker, and the first speaker again
C18_Witness ==
    /\ pc = "merge_returned"
    /\ Len(segments) = 4 /\ Len(result) = 3
    /\ segments[1][1] = segments[2][1]
    /\ segments[1][3] # segments[2][3]
    /\ result[1][4] = "t1t2"
    /\ result[3][1] = result[1][1]
    /\ result[3][4] = "t4"

\* C19: merge_consecutive_segments applied to its own result returns that
\* result.
C19_MergeIdempotent ==
    pc = "merge_again_returned" => result = segments

\* the first call merged a run of three
C19_Witness ==
    /\ pc = "merge_again_returned"
    /\ Len(result) = 2
    /\ result[1][4] = "t1t2t3"
    /\ result[2][4] = "t4"

\* C20: merge_consecutive_segments returns the empty list for the empty
\* list, a single entry unchanged, and for entries of one speaker exactly
\* one entry from the first entry's start to the last entry's end.
C20_MergeEdgeCases ==
    pc = "merge_returned" =>
        /\ Len(segments) = 0 => Len(result) = 0
        /\ Len(segments) = 1 => result = segments
        /\ (/\ Len(segments) >= 1
            /\ \A k \in DOMAIN segments : segments[k][1] = segments[1][1])
           => /\ Len(result) = 1
              /\ result[1][1] = segments[1][1]
              /\ result[1][2] = segments[1][2]
              /\ result[1][3] = segments[Len(segments)][3]

\* four entries of one speaker
C20_Witness ==
    /\ pc = "merge_returned"
    /\ Len(segments) = 4
    /\ \A k \in DOMAIN segments : segments[k][1] = segments[1][1]
    /\ segments[1][3] # segments[4][3]
    /\ Len(result) = 1

\* the empty list and a single entry
C20_WitnessEmpty == pc = "merge_returned" /\ Len(segments) = 0 /\ Len(result) = 0
C20_WitnessSingle == pc = "merge_returned" /\ Len(segments) = 1 /\ Len(result) = 1

----------------------------------------------------------------------------
(* Invalid input *)

\* a segment whose start or end is None
HasNullBound(segment) ==
    segment.timestamp[1] = None \/ segment.timestamp[2] = None

InvalidSegments(list) == {k \in DOMAIN list : HasNullBound(list[k])}

\* C21 as claimed: neither align nor align_enhanced returns a result for
\* input that holds a segment whose start or end is None; every such call
\* ends in an error and no such segment reaches the output.
C21_InvalidInputNeverReturns ==
    pc \in {"align_returned", "align_enhanced_returned"} =>
        /\ InvalidSegments(user_timestamps) = {}
        /\ InvalidSegments(monitor_timestamps) = {}
        /\ InvalidSegments(merged) = {}

----------------------------------------------------------------------------
(* Further properties of Aligner.align *)

\* the chunks are in the order of their starts
ChunksSortedByStart == SortedByStart(timestamps)

\* result entries made of more than one chunk (texts are per chunk)
MergedEntries ==
    {p \in DOMAIN result :
        \A k \in DOMAIN timestamps : result[p][4] # timestamps[k].text}

\* C22: for a chunk list sorted by start, every entry of the list align
\* returns has end >= start, also an entry whose end was resolved from the
\* last turn and an entry merged from consecutive chunks of one speaker.
C22_EndNotBeforeStart ==
    (pc = "aligner_align_returned" /\ ChunksSortedByStart) =>
        \A p \in DOMAIN result : result[p][3] >= result[p][2]

\* two chunks of one speaker are merged into one entry and the second has
\* no end of its own
C22_Witness ==
    /\ pc = "aligner_align_returned"
    /\ ChunksSortedByStart
    /\ Len(timestamps) = 2
    /\ timestamps[1].timestamp[2] < timestamps[2].timestamp[1]
    /\ HasNullEnd(2)
    /\ Len(result) = 1
    /\ MergedEntries = {1}
    /\ result[1][2] = timestamps[1].timestamp[1]
    /\ result[1][3] = LastTurnEnd

\* for chunks that are not sorted by start a merged entry may end before it
\* starts
C22_WitnessUnsorted ==
    /\ pc = "aligner_align_returned"
    /\ ~ChunksSortedByStart
    /\ \E p \in DOMAIN result : result[p][3] < result[p][2]

\* chunk k and the turn meet in one point at most, an end of one on the
\* start of the other
Touches(chunk_start, chunk_end, turn) ==
    chunk_end = turn.start \/ chunk_start = turn.end

\* C28: a chunk whose resolved end is not after its start (a chunk without
\* length, or a chunk without end that starts at or after the end of the
\* last turn) matches no turn and is dropped, and a chunk is never matched
\* to a turn it only touches at an endpoint: the speaker of an emitted chunk
\* is the speaker of a turn that starts before the chunk's resolved end and
\* ends after the chunk's start.
C28_EmptyOrTouchingNeverMatched ==
    /\ pc = "aligner_align_returned" =>
          \A k \in DOMAIN timestamps :
              /\ ResolvedEnd(k) <= timestamps[k].timestamp[1] => EmittedAt(k) = {}
              /\ \A p \in EmittedAt(k) :
                    \E j \in DOMAIN diarization :
                        /\ diarization[j].speaker = speaker_transcriptions[p][1]
                        /\ diarization[j].start < ResolvedEnd(k)
                        /\ timestamps[k].timestamp[1] < diarization[j].end
    /\ pc = "find_best_match_returned" =>
          /\ end_time <= start_time => best_match = NoMatch
          /\ \A j \in DOMAIN diarization :
                Touches(start_time, end_time, diarization[j]) =>
                    best_match # TurnTuple(diarization[j])

\* the first chunk ends where the only turn starts, the second has no end
\* and starts where that turn ends: both are dropped
C28_Witness ==
    /\ pc = "aligner_align_returned"
    /\ Len(diarization) = 1 /\ Len(timestamps) = 2
    /\ timestamps[1].timestamp[1] < timestamps[1].timestamp[2]
    /\ timestamps[1].timestamp[2] = diarization[1].start
    /\ HasNullEnd(2)
    /\ timestamps[2].timestamp[1] = LastTurnEnd
    /\ speaker_transcriptions = <<>>
    /\ result = <<>>

\* a chunk touches the first turn and lies in the second: the second is the
\* match
C28_WitnessTouching ==
    /\ pc = "find_best_match_returned"
    /\ Len(diarization) = 2
    /\ start_time < end_time
    /\ Touches(start_time, end_time, diarization[1])
    /\ best_match = TurnTuple(diarization[2])

\* a chunk without length inside a turn is dropped
C28_WitnessZeroLength ==
    /\ pc = "aligner_align_returned"
    /\ Len(diarization) = 1 /\ Len(timestamps) = 1
    /\ timestamps[1].timestamp[1] = timestamps[1].timestamp[2]
    /\ diarization[1].start < timestamps[1].timestamp[1]
    /\ timestamps[1].timestamp[1] < diarization[1].end
    /\ result = <<>>

\* the kept chunk before chunk k
PrevKept(k) ==
    CHOOSE i \in KeptChunks : i < k /\ \A h \in KeptChunks : h < k => h <= i

\* kept chunk k opens an entry: no kept chunk precedes it, or the kept chunk
\* before it has another speaker
StartsEntry(k) ==
    \/ \A i \in KeptChunks : i >= k
    \/ BestTurn(PrevKept(k)).speaker # BestTurn(k).speaker

\* the entry kept chunk k goes to
EntryOf(k) == Cardinality({i \in KeptChunks : i <= k /\ StartsEntry(i)})

\* the texts of the kept chunks of entry e, from chunk k on
RECURSIVE EntryText(_, _)
EntryText(e, k) ==
    IF k > Len(timestamps) THEN ""
    ELSE (IF k \in KeptChunks /\ EntryOf(k) = e THEN timestamps[k].text ELSE "")
         \o EntryText(e, k + 1)

\* C29: chunks are dropped before the list is compacted: the returned list
\* has one entry for every run of kept chunks of one speaker, a run not
\* being broken by dropped chunks that stand between its members, with the
\* speaker and the texts of the run; no two adjacent entries have the same
\* speaker.
C29_DroppedBeforeCompaction ==
    pc = "aligner_align_returned" =>
        /\ Len(result) = Cardinality({k \in KeptChunks : StartsEntry(k)})
        /\ \A k \in KeptChunks :
              /\ result[EntryOf(k)][1] = BestTurn(k).speaker
              /\ result[EntryOf(k)][4] = EntryText(EntryOf(k), 1)
        /\ \A p \in 1..(Len(result) - 1) : result[p][1] # result[p + 1][1]

\* the first and the third chunk have the same speaker, the second is
\* dropped: one entry with the texts of the first and the third
C29_Witness ==
    /\ pc = "aligner_align_returned"
    /\ Len(timestamps) = 3
    /\ KeptChunks = {1, 3}
    /\ timestamps[2].timestamp[1] < timestamps[2].timestamp[2]
    /\ Len(result) = 1
    /\ result[1][4] = timestamps[1].text \o timestamps[3].text
    /\ result[1][2] = timestamps[1].timestamp[1]
    /\ result[1][3] = timestamps[3].timestamp[2]

----------------------------------------------------------------------------
(* Properties of TranscribeOnlyStrategy.run *)

\* the calls made so far of a function
CallsOf(function) == {k \in DOMAIN calls : calls[k][1] = function}

\* a call of the function has been made with that outcome
Called(function, outcome) ==
    \E k \in CallsOf(function) : calls[k][3] = outcome

\* C23: a run that succeeds returns the legacy list align made of the two
\* channels' segments, which is what it gave to save_final_transcription:
\* a list of the channels' own segments, not the enhanced report nor its
\* entries.
C23_ReturnsLegacyList ==
    pc = "run_returned" =>
        /\ returned = align(user_timestamps, monitor_timestamps)
        /\ returned = saved_final
        /\ Called("save_final_transcription", "returned")
        /\ \A k \in DOMAIN returned :
              /\ DOMAIN returned[k] = {"timestamp", "text"}
              /\ \/ \E i \in DOMAIN user_timestamps :
                       returned[k] = user_timestamps[i]
                 \/ \E j \in DOMAIN monitor_timestamps :
                       returned[k] = monitor_timestamps[j]

\* a run returns a list of a monitor segment and a user segment, in an order
\* that differs from the order of their texts in the channels
C23_Witness ==
    /\ pc = "run_returned"
    /\ Len(user_timestamps) = 1 /\ Len(monitor_timestamps) = 1
    /\ returned = <<monitor_timestamps[1], user_timestamps[1]>>
    /\ saved_final = returned
    /\ saved_enhanced.summary_hints.total_segments = 2

\* the calls of a run that succeeds, each with its argument
RunOrder ==
    << <<"capture", "">>,
       <<"transcribe", MicWav>>,
       <<"transcribe", MonitorWav>>,
       <<"save_transcription", MicJson>>,
       <<"save_transcription", MonitorJson>>,
       <<"align", "">>,
       <<"save_final_transcription", "">>,
       <<"generate_session_metadata", "">>,
       <<"align_enhanced", "">>,
       <<"save_enhanced_transcription", "">> >>

\* C24: the calls of run are made one after the other in the order capture,
\* transcribe of the user channel, transcribe of the monitor channel, save
\* of mic.json and of monitor.json, align, save_final_transcription,
\* generate_session_metadata, align_enhanced, save_enhanced_transcription:
\* a call is made only after the call before it has returned;
\* generate_session_metadata precedes align_enhanced; a run that succeeds
\* has called transcribe twice and align, align_enhanced,
\* save_final_transcription, save_enhanced_transcription and
\* generate_session_metadata once each.
C24_StepsInOrder ==
    /\ Len(calls) <= Len(RunOrder)
    /\ \A k \in DOMAIN calls :
          /\ <<calls[k][1], calls[k][2]>> = RunOrder[k]
          /\ k < Len(calls) => calls[k][3] = "returned"
    /\ \A k \in CallsOf("align_enhanced") :
          \E j \in CallsOf("generate_session_metadata") : j < k
    /\ pc = "run_returned" =>
          /\ Len(calls) = Len(RunOrder)
          /\ Cardinality(CallsOf("transcribe")) = 2
          /\ \A function \in {"align", "align_enhanced",
                              "save_final_transcription",
                              "save_enhanced_transcription",
                              "generate_session_metadata"} :
                Cardinality(CallsOf(function)) = 1
          /\ \A k \in DOMAIN calls : calls[k][3] = "returned"

\* a run has returned after its ten calls
C24_Witness ==
    /\ pc = "run_returned"
    /\ Len(calls) = 10
    /\ calls[8] = <<"generate_session_metadata", "", "returned">>
    /\ calls[9] = <<"align_enhanced", "", "returned">>
    /\ enhanced_format.session_metadata.duration_seconds
          = session_metadata.duration_seconds

\* a run ends at a call that raises, after the calls before it
C24_WitnessRaised ==
    /\ pc = "run_raised"
    /\ Len(calls) = 9
    /\ calls[9] = <<"align_enhanced", "", "raised">>

\* C25: when save_enhanced_transcription raises, run ends with that
\* exception: it is not swallowed, and run returns nothing, the legacy
\* transcription neither.
C25_SaveEnhancedErrorPropagates ==
    Called("save_enhanced_transcription", "raised") =>
        /\ pc = "run_raised"
        /\ error = "OSError"
        /\ returned = <<>>

\* save_enhanced_transcription raises after the legacy list of two segments
\* has been saved
C25_Witness ==
    /\ Called("save_enhanced_transcription", "raised")
    /\ pc = "run_raised"
    /\ Len(saved_final) = 2
    /\ Len(enhanced_format.conversation) = 2
    /\ saved_enhanced = NoReport

----------------------------------------------------------------------------
(* align and align_enhanced on the same streams *)

\* the (start, end, text) triples of a list of segments
SegmentTriples(list) ==
    [k \in DOMAIN list |->
        <<list[k].timestamp[1], list[k].timestamp[2], list[k].text>>]

\* the (start, end, text) triples of a conversation
EntryTriples(conversation) ==
    [k \in DOMAIN conversation |->
        <<conversation[k].start_time, conversation[k].end_time,
          conversation[k].text>>]

\* C26: for streams that are each sorted by start, the (start, end, text)
\* triples of the conversation align_enhanced returns are, element by
\* element, the triples of the list align returns for the same streams.
C26_ConversationMatchesLegacy ==
    (/\ pc = "align_enhanced_returned"
     /\ SortedByStart(user_timestamps)
     /\ SortedByStart(monitor_timestamps)) =>
        EntryTriples(Conversation) =
            SegmentTriples(align(user_timestamps, monitor_timestamps))

\* sorted streams that start together: the first user segment, the monitor
\* segment, the second user segment
C26_Witness ==
    /\ pc = "align_enhanced_returned"
    /\ Len(user_timestamps) = 2 /\ Len(monitor_timestamps) = 1
    /\ SortedByStart(user_timestamps)
    /\ user_timestamps[1].timestamp[1] = monitor_timestamps[1].timestamp[1]
    /\ user_timestamps[2].timestamp[1] > monitor_timestamps[1].timestamp[1]
    /\ EntryTriples(Conversation) =
          << <<user_timestamps[1].timestamp[1], user_timestamps[1].timestamp[2], "u1">>,
             <<monitor_timestamps[1].timestamp[1], monitor_timestamps[1].timestamp[2], "m1">>,
             <<user_timestamps[2].timestamp[1], user_timestamps[2].timestamp[2], "u2">> >>

\* for a stream that is not sorted the two differ
C26_WitnessUnsorted ==
    /\ pc = "align_enhanced_returned"
    /\ ~SortedByStart(user_timestamps)
    /\ EntryTriples(Conversation) #
          SegmentTriples(align(user_timestamps, monitor_timestamps))

----------------------------------------------------------------------------
(* TranscribeOnlyStrategy.run: failure of the enhanced alignment *)

\* a segment of a channel has no end
SomeEndIsNull ==
    \/ \E k \in DOMAIN user_timestamps : user_timestamps[k].timestamp[2] = None
    \/ \E k \in DOMAIN monitor_timestamps :
          monitor_timestamps[k].timestamp[2] = None

\* C27: whenever align_enhanced ends in an error in run, align has returned
\* and save_final_transcription has been called before with the legacy
\* result and has returned, save_enhanced_transcription is not called, and
\* run ends with the error; align_enhanced does end in an error whenever a
\* segment has a null end, which align accepts.
C27_FailsAfterLegacySaved ==
    /\ Called("align_enhanced", "raised") =>
          /\ Called("align", "returned")
          /\ \E k \in CallsOf("align_enhanced") :
                \E j \in CallsOf("save_final_transcription") :
                    j < k /\ calls[j][3] = "returned"
          /\ saved_final = align(user_timestamps, monitor_timestamps)
          /\ CallsOf("save_enhanced_transcription") = {}
          /\ saved_enhanced = NoReport
          /\ pc = "run_raised"
          /\ error = "TypeError"
          /\ returned = <<>>
    /\ (CallsOf("align_enhanced") # {} /\ SomeEndIsNull) =>
          Called("align_enhanced", "raised")

\* the monitor's last segment has no end: the legacy list of two segments is
\* saved and the run fails in align_enhanced
C27_Witness ==
    /\ Called("align_enhanced", "raised")
    /\ pc = "run_raised"
    /\ Len(user_timestamps) = 1 /\ Len(monitor_timestamps) = 1
    /\ user_timestamps[1].timestamp[2] # None
    /\ monitor_timestamps[1].timestamp[2] = None
    /\ Len(saved_final) = 2
    /\ saved_final[2] = monitor_timestamps[1]

----------------------------------------------------------------------------
(* The arguments of align_enhanced *)

\* C30: a call of align_enhanced, whether it returns or raises, leaves its
\* arguments as they were: the two streams (length, order and every
\* segment) and the caller's session_metadata mapping, which gets no
\* total_segments and no channels key and keeps its own values.
C30_ArgumentsUnchanged ==
    [][(/\ pc = "ready"
        /\ pc' \in {"align_enhanced_returned", "align_enhanced_raised"}) =>
           /\ user_timestamps' = user_timestamps
           /\ monitor_timestamps' = monitor_timestamps
           /\ session_metadata' = session_metadata]_vars

\* a call has returned a report whose conversation is in another order than
\* the user stream and whose session_metadata has the computed keys, which
\* the caller's mapping has not
C30_Witness ==
    /\ pc = "align_enhanced_returned"
    /\ Len(user_timestamps) = 2 /\ Len(monitor_timestamps) = 1
    /\ ~SortedByStart(user_timestamps)
    /\ Conversation[1].text = "u2"
    /\ DOMAIN session_metadata = {"timestamp", "duration_seconds"}
    /\ enhanced_format.session_metadata.total_segments = 3
    /\ enhanced_format.session_metadata.channels = Channels

====
